---- MODULE Spec2Model ----
(***************************************************************************)
(* A model of src/src/tree.rs: the identifier generator (IdGenerator), the *)
(* two node variants (ChildrenNode, LeftRightNode) and the arena           *)
(* (NodeTree) with make_root, get_node, get_node_mut and make_node.        *)
(*                                                                         *)
(* Option<T> is modelled as a sequence of length 0 (None) or 1 (Some(x));  *)
(* the HashMap<Id, Node> as a function from its key set to node records.   *)
(* The factory handed to make_node is an input: it is drawn from a finite  *)
(* family of closures, the ones of the repository's test among them.       *)
(***************************************************************************)
EXTENDS Integers, Sequences, FiniteSets, TLC

\* Calls are allowed while the counter is below MaxId, so the identifiers
\* the generator hands out are 0 .. MaxId-1; the u32 counter stays far below
\* its maximum in this specification.
MaxId == 3

VARIABLES
  nextId,     \* id_generator.nextId (the number inside Id)
  node_map,   \* node_map: HashMap<Id, Node>
  log,        \* history: one entry per make_root / make_node call, in order
  last,       \* observation of the most recent call: arguments and result
  other       \* a second NodeTree, not the one being called: its nextId,
              \* its node_map and the history of the calls made on it

vars == <<nextId, node_map, log, last, other>>

\* Values an Id argument may take: the identifiers the generator can hand
\* out and one (MaxId) that it never hands out.
Ids == 0 .. MaxId

None == << >>
Some(x) == <<x>>

---------------------------------------------------------------------------
\* IdGenerator

\* IdGenerator::new
IdGenerator_new == 0

\* IdGenerator::next: the identifier returned
IdGenerator_next_value(n) == n

\* Variant of next: the counter is left where it was
IdGenerator_next_stuck(n) == n

\* Variant of next: the counter advances by two
IdGenerator_next_skip(n) == n + 2

\* IdGenerator::next: the counter afterwards
IdGenerator_next_state(n) == n + 1

---------------------------------------------------------------------------
\* Nodes

Variants == {"ChildrenNode", "LeftRightNode"}

\* Variant of ChildrenNode::new: the two arguments land in each other's field
ChildrenNode_new_swapped(id, parent) ==
  [tag |-> "ChildrenNode", id |-> parent, parent |-> id, children |-> << >>]

\* ChildrenNode::new wrapped in Node::ChildrenNode
ChildrenNode_new(id, parent) ==
  [tag |-> "ChildrenNode", id |-> id, parent |-> parent, children |-> << >>]

\* LeftRightNode::new wrapped in Node::LeftRightNode
LeftRightNode_new(id, parent) ==
  [tag |-> "LeftRightNode", id |-> id, parent |-> parent,
   left |-> None, right |-> None]

\* Variant of get_inner: the inner struct is handed out without the
\* downcast's type test
get_inner_unchecked(node, T) == Some(node)

\* Node::get_inner::<T> / Node::get_inner_mut::<T>: the contents when the
\* node is of variant T, None otherwise (the downcast of the inner struct).
get_inner(node, T) == IF node.tag = T THEN Some(node) ELSE None

---------------------------------------------------------------------------
\* The node map

\* HashMap::new
HashMap_new == << >>

\* Variant of insert: identifiers that differ by two hash and compare as
\* the same key
HashMap_insert_collide(m, k, v) ==
  [x \in (DOMAIN m) \cup {k % 2} |-> IF x = k % 2 THEN v ELSE m[x]]

\* HashMap::insert: the value under an existing key is replaced
HashMap_insert(m, k, v) ==
  [x \in (DOMAIN m) \cup {k} |-> IF x = k THEN v ELSE m[x]]

\* NodeTree::get_node / get_node_mut
get_node(m, id) == IF id \in DOMAIN m THEN Some(m[id]) ELSE None

---------------------------------------------------------------------------
\* The factories handed to make_node: Box<dyn Fn(Id, &mut Node) -> Node>.
\* A factory is a record [kind, variant, x]: kind names the closure body,
\* variant the node variant it constructs, x an Id it captured (0 when the
\* closure captures nothing).

\* Closures that follow the convention of the test: record the new
\* identifier in the parent (or leave the parent alone) and return
\* Variant::new(id, parent_inner.id).
ConventionKinds == {"push", "set_left", "set_right", "plain"}

\* Closures that use the access the signature gives them in other ways:
\*   "foreign"      returns a node whose id field is the captured x
\*   "orphan"       returns a node whose parent field is the captured x
\*   "self_parent"  returns Variant::new(id, id)
\*   "set_id"       writes the captured x into the parent's id field
\*   "push_x"       pushes the captured x onto the parent's children
CapturingKinds == {"foreign", "orphan", "set_id", "push_x"}

\* The identifiers a closure may have captured: the first one the generator
\* hands out and one it never hands out.
CapturedIds == {0, MaxId}

Factories ==
  [kind : ConventionKinds \cup {"self_parent"}, variant : Variants, x : {0}]
    \cup [kind : CapturingKinds, variant : {"LeftRightNode"}, x : CapturedIds]

\* Variant::new(id, parent) for the variant the closure constructs
Variant_new(variant, id, parent) ==
  IF variant = "ChildrenNode" THEN ChildrenNode_new(id, parent)
  ELSE LeftRightNode_new(id, parent)

\* Whether the closure returns: parent.get_inner_mut::<T>().unwrap()
\* panics when the parent is not of the variant the closure expects. The
\* panic unwinds out of make_node before the closure wrote anything, so
\* make_node returns nothing; such a call is not a step of make_node below.
FactoryReturns(f, id, parent) ==
  CASE f.kind \in {"push", "push_x"} -> get_inner(parent, "ChildrenNode") # None
    [] f.kind \in {"set_left", "set_right"} ->
         get_inner(parent, "LeftRightNode") # None
    [] OTHER -> TRUE

\* The parent node after the closure ran (its writes through &mut Node)
FactoryParent(f, id, parent) ==
  CASE f.kind = "push" -> [parent EXCEPT !.children = Append(@, id)]
    [] f.kind = "push_x" -> [parent EXCEPT !.children = Append(@, f.x)]
    [] f.kind = "set_left" -> [parent EXCEPT !.left = Some(id)]
    [] f.kind = "set_right" -> [parent EXCEPT !.right = Some(id)]
    [] f.kind = "set_id" -> [parent EXCEPT !.id = f.x]
    [] OTHER -> parent

\* The node the closure returns
FactoryNode(f, id, parent) ==
  CASE f.kind = "foreign" -> Variant_new(f.variant, f.x, parent.id)
    [] f.kind = "orphan" -> Variant_new(f.variant, id, f.x)
    [] f.kind = "self_parent" -> Variant_new(f.variant, id, id)
    [] OTHER -> Variant_new(f.variant, id, parent.id)

---------------------------------------------------------------------------
\* NodeTree

\* What a call leaves in `last`; fields a call does not use keep these values.
NoCall ==
  [op |-> "new", arg |-> None, consumed |-> None,
   ret |-> "none", ret_id |-> None, ret_node |-> None,
   invoked |-> 0, fac_id |-> None, fac_parent |-> None, fac_ret |-> None,
   pre_map |-> HashMap_new, pre_next |-> IdGenerator_new]

\* Variant of the error kind: the reserved kind
MakeNodeError_unknown == "Unknown"

\* The error kind make_node returns when the parent is absent
MakeNodeError == "NotFound"

\* NodeTree::new, for the second instance
NodeTree_new ==
  [nextId |-> IdGenerator_new, node_map |-> HashMap_new, log |-> << >>]

\* NodeTree::new
Init ==
  /\ nextId = IdGenerator_new
  /\ node_map = HashMap_new
  /\ log = << >>
  /\ last = NoCall
  /\ other = NodeTree_new

\* Variant of the root node: the parent field is Id(0), not the node's id
RootNode_zero(id) == ChildrenNode_new(id, 0)

\* The node make_root stores
RootNode(id) == ChildrenNode_new(id, id)

\* NodeTree::make_root
make_root ==
  /\ nextId < MaxId
  /\ UNCHANGED other
  /\ LET id == IdGenerator_next_value(nextId)
     IN /\ nextId' = IdGenerator_next_state(nextId)
        /\ node_map' = HashMap_insert(node_map, id, RootNode(id))
        /\ log' = Append(log, [op |-> "make_root", parent |-> None, id |-> id,
                               ok |-> TRUE, fkind |-> "none"])
        /\ last' = [NoCall EXCEPT !.op = "make_root", !.consumed = Some(id),
                      !.ret = "Id", !.ret_id = Some(id),
                      !.pre_map = node_map, !.pre_next = nextId]

\* Variant of the Some(parent) branch: the factory is given a copy of the
\* parent, so its writes are lost
MakeNodeStore_copy(m, parent_id, id, f) ==
  HashMap_insert(m, id, FactoryNode(f, id, m[parent_id]))

\* Variant of the Some(parent) branch: the node is stored under the
\* parent's key
MakeNodeStore_key(m, parent_id, id, f) ==
  HashMap_insert([m EXCEPT ![parent_id] = FactoryParent(f, id, m[parent_id])],
                 parent_id, FactoryNode(f, id, m[parent_id]))

\* Variant of the Some(parent) branch: the parent is taken out of the map
\* for the factory and not put back
MakeNodeStore_take(m, parent_id, id, f) ==
  [x \in ((DOMAIN m) \ {parent_id}) \cup {id} |->
     IF x = id THEN FactoryNode(f, id, m[parent_id]) ELSE m[x]]

\* Variant of the Some(parent) branch: the returned node is not inserted
MakeNodeStore_no_insert(m, parent_id, id, f) ==
  [m EXCEPT ![parent_id] = FactoryParent(f, id, m[parent_id])]

\* The map after the Some(parent) branch of make_node: the factory's writes
\* to the parent, then the insertion of the node it returned.
MakeNodeStore(m, parent_id, id, f) ==
  HashMap_insert([m EXCEPT ![parent_id] = FactoryParent(f, id, m[parent_id])],
                 id, FactoryNode(f, id, m[parent_id]))

\* Variant of the allocation in make_node: the identifier of a failed call
\* is handed back to the generator
MakeNodeNextId_recycle(n, found) ==
  IF found = None THEN n ELSE IdGenerator_next_state(n)

\* The counter after make_node: next() runs before the lookup, so the
\* identifier is consumed whatever the lookup finds
MakeNodeNextId(n, found) == IdGenerator_next_state(n)

\* NodeTree::make_node
make_node(parent_id, f) ==
  /\ nextId < MaxId
  /\ UNCHANGED other
  /\ LET id == IdGenerator_next_value(nextId)
         found == get_node(node_map, parent_id)
     IN /\ nextId' = MakeNodeNextId(nextId, found)
        /\ IF found # None
           THEN /\ FactoryReturns(f, id, found[1])
                /\ node_map' = MakeNodeStore(node_map, parent_id, id, f)
                /\ log' = Append(log, [op |-> "make_node", parent |-> Some(parent_id),
                                       id |-> id, ok |-> TRUE, fkind |-> f.kind])
                /\ last' = [NoCall EXCEPT !.op = "make_node", !.arg = Some(parent_id),
                              !.consumed = Some(id),
                              !.ret = "Ok", !.ret_id = Some(id),
                              !.invoked = 1, !.fac_id = Some(id),
                              !.fac_parent = found,
                              !.fac_ret = Some(FactoryNode(f, id, found[1])),
                              !.pre_map = node_map, !.pre_next = nextId]
           ELSE /\ node_map' = node_map
                /\ log' = Append(log, [op |-> "make_node", parent |-> None,
                                       id |-> id, ok |-> FALSE, fkind |-> "none"])
                /\ last' = [NoCall EXCEPT !.op = "make_node", !.arg = Some(parent_id),
                              !.consumed = Some(id),
                              !.ret = MakeNodeError,
                              !.pre_map = node_map, !.pre_next = nextId]

\* NodeTree::get_node
GetNode(id) ==
  /\ last' = [NoCall EXCEPT !.op = "get_node", !.arg = Some(id),
                !.ret = IF get_node(node_map, id) = None THEN "None" ELSE "Some",
                !.ret_node = get_node(node_map, id),
                !.pre_map = node_map, !.pre_next = nextId]
  /\ UNCHANGED <<nextId, node_map, log, other>>

\* NodeTree::get_node_mut: the lookup; the borrow it hands out ends with
\* the call.
GetNodeMut(id) ==
  /\ last' = [NoCall EXCEPT !.op = "get_node_mut", !.arg = Some(id),
                !.ret = IF get_node(node_map, id) = None THEN "None" ELSE "Some",
                !.ret_node = get_node(node_map, id),
                !.pre_map = node_map, !.pre_next = nextId]
  /\ UNCHANGED <<nextId, node_map, log, other>>

Next ==
  \/ make_root
  \/ \E parent_id \in Ids, f \in Factories : make_node(parent_id, f)
  \/ \E id \in Ids : GetNode(id)
  \/ \E id \in Ids : GetNodeMut(id)

Spec == Init /\ [][Next]_vars

---------------------------------------------------------------------------
\* History read off the log

\* The calls that returned an identifier (make_root, or make_node with Ok)
OkLog == SelectSeq(log, LAMBDA e : e.ok)

\* The identifiers returned so far, in the order they were returned
ReturnedIds == [i \in 1 .. Len(OkLog) |-> OkLog[i].id]

\* Positions of the log holding a failed make_node
FailedCalls == {i \in 1 .. Len(log) : ~log[i].ok}

\* The last call was make_node with a parent present / absent when called
LastMakeNodePresent ==
  last.op = "make_node" /\ last.arg[1] \in DOMAIN last.pre_map
LastMakeNodeAbsent ==
  last.op = "make_node" /\ last.arg[1] \notin DOMAIN last.pre_map

---------------------------------------------------------------------------
\* C1: over any interleaving of make_root, successful and failed make_node
\* calls on one NodeTree, every identifier returned (by make_root, or as
\* Ok(id) by make_node) differs from every identifier returned earlier.
C1_ReturnedIdsDistinct ==
  \A i, j \in 1 .. Len(ReturnedIds) : i < j => ReturnedIds[i] # ReturnedIds[j]

\* A run with a make_root, then a failed make_node, then a successful one
C1_Witness ==
  /\ Len(log) = 3
  /\ log[1].op = "make_root"
  /\ ~log[2].ok
  /\ log[3].op = "make_node" /\ log[3].ok

\* C2: make_node called with a parent that is present returns Ok(new_id),
\* new_id was handed out by no earlier call, the factory ran exactly once
\* with (new_id, the parent node as stored), and get_node(new_id) is then
\* exactly the node the factory returned.
C2_MakeNodePresent ==
  LastMakeNodePresent =>
    /\ last.ret = "Ok"
    /\ last.ret_id # None
    /\ \A i \in 1 .. Len(log) - 1 : log[i].id # last.ret_id[1]
    /\ last.invoked = 1
    /\ last.fac_id = last.ret_id
    /\ last.fac_parent = Some(last.pre_map[last.arg[1]])
    /\ last.fac_ret # None
    /\ get_node(node_map, last.ret_id[1]) = last.fac_ret

\* A successful make_node under a parent that already had a child
C2_Witness ==
  /\ LastMakeNodePresent
  /\ last.pre_map[last.arg[1]].tag = "ChildrenNode"
  /\ Len(last.pre_map[last.arg[1]].children) = 1
  /\ Len(node_map[last.arg[1]].children) = 2

\* C3: make_node called with a parent that is absent returns Err(NotFound),
\* does not run the factory and leaves the node map as it was; the one
\* change is that the generator moved on by one identifier.
C3_MakeNodeAbsent ==
  LastMakeNodeAbsent =>
    /\ last.ret = "NotFound"
    /\ last.ret_id = None
    /\ last.invoked = 0
    /\ last.fac_ret = None
    /\ node_map = last.pre_map
    /\ last.consumed = Some(last.pre_next)
    /\ nextId = last.pre_next + 1

\* A failed make_node on an arena that holds nodes
C3_Witness ==
  /\ LastMakeNodeAbsent
  /\ Cardinality(DOMAIN node_map) = 2

\* C4: after make_root returned root_id, get_node(root_id) is a
\* ChildrenNode with id = parent = root_id and no children; make_root
\* returns an Id, never an error, and can be called in every state.
C4_MakeRoot ==
  /\ last.op = "make_root" =>
       /\ last.ret = "Id"
       /\ last.ret_id # None
       /\ get_node(node_map, last.ret_id[1]) =
            Some([tag |-> "ChildrenNode", id |-> last.ret_id[1],
                  parent |-> last.ret_id[1], children |-> << >>])
  /\ nextId < MaxId => ENABLED make_root

\* A make_root on an arena that already holds a root with a child
C4_Witness ==
  /\ last.op = "make_root"
  /\ Cardinality(DOMAIN last.pre_map) = 2
  /\ last.ret_id = Some(2)

\* The successful make_node calls used only the closure of the test: push
\* the new identifier onto the parent's children, return
\* Variant::new(id, parent_inner.id)
AllPush ==
  \A i \in 1 .. Len(log) :
    (log[i].op = "make_node" /\ log[i].ok) => log[i].fkind = "push"

\* The identifiers returned by the successful make_node(P, ..) calls, in
\* the order of the calls
ChildrenMade(P) ==
  LET made == SelectSeq(log, LAMBDA e : e.op = "make_node" /\ e.ok
                                         /\ e.parent = Some(P))
  IN [i \in 1 .. Len(made) |-> made[i].id]

\* C5: when every make_node call uses the pushing factory of the test, the
\* children of every ChildrenNode P are exactly the identifiers returned by
\* the successful make_node(P, ..) calls, in call order and without
\* duplicates, and every listed child is stored with parent = P.
C5_ChildrenInCallOrder ==
  AllPush =>
    \A P \in DOMAIN node_map :
      node_map[P].tag = "ChildrenNode" =>
        LET ch == node_map[P].children
        IN /\ ch = ChildrenMade(P)
           /\ \A i, j \in 1 .. Len(ch) : i < j => ch[i] # ch[j]
           /\ \A i \in 1 .. Len(ch) :
                /\ ch[i] \in DOMAIN node_map
                /\ node_map[ch[i]].parent = P

\* The scenario of the test: a root R, then A and B made under R
C5_Witness ==
  /\ AllPush
  /\ \E R \in DOMAIN node_map :
       /\ node_map[R].tag = "ChildrenNode"
       /\ Len(node_map[R].children) = 2
       /\ node_map[node_map[R].children[1]].tag = "LeftRightNode"
       /\ node_map[node_map[R].children[2]].tag = "LeftRightNode"

\* The identifiers returned by the calls before the latest one
ReturnedBeforeLast ==
  {log[i].id : i \in {j \in 1 .. Len(log) - 1 : log[j].ok}}

\* C6: make_node returns an error exactly when parent_id is absent from the
\* arena at the call, the error is NotFound, and no call returns Unknown;
\* a parent_id that no earlier call returned (one never handed out, one
\* consumed by a failed make_node, the one this call allocates) is absent.
C6_ErrorIffAbsent ==
  /\ last.ret # "Unknown"
  /\ last.op = "make_node" =>
       /\ last.ret \in {"Ok", "NotFound"}
       /\ (last.ret = "NotFound") <=> (last.arg[1] \notin DOMAIN last.pre_map)
       /\ last.arg[1] \notin ReturnedBeforeLast => last.ret = "NotFound"

\* make_node under a parent_id that an earlier failed make_node consumed
C6_Witness ==
  /\ last.op = "make_node"
  /\ last.ret = "NotFound"
  /\ \E i \in FailedCalls : i < Len(log) /\ log[i].id = last.arg[1]
  /\ DOMAIN node_map # {}

\* C7: every make_node call consumes exactly one identifier, found parent
\* or not; the identifier a failed make_node consumed is returned by no
\* later call and is never a key of the arena.
C7_FailedIdNeverReused ==
  /\ last.op = "make_node" =>
       /\ last.consumed = Some(last.pre_next)
       /\ nextId = last.pre_next + 1
  /\ \A i \in FailedCalls :
       /\ \A j \in 1 .. Len(log) : j > i => log[j].id # log[i].id
       /\ log[i].id \notin DOMAIN node_map
       /\ get_node(node_map, log[i].id) = None

\* A failed make_node followed by a make_root and a successful make_node
C7_Witness ==
  /\ Len(log) = 3
  /\ 1 \in FailedCalls
  /\ log[2].op = "make_root"
  /\ log[3].op = "make_node" /\ log[3].ok

\* The successful make_node calls used only closures that follow the
\* convention: they store at most the new identifier in the parent's
\* children, left or right, write nothing else of the parent, and return
\* Variant::new(id, parent_inner.id)
Conventional ==
  \A i \in 1 .. Len(log) :
    (log[i].op = "make_node" /\ log[i].ok) => log[i].fkind \in ConventionKinds

\* The identifiers a node holds: parent, and children or left and right
Refs(node) ==
  {node.parent} \cup
    (IF node.tag = "ChildrenNode"
     THEN {node.children[i] : i \in 1 .. Len(node.children)}
     ELSE {node.left[i] : i \in 1 .. Len(node.left)}
            \cup {node.right[i] : i \in 1 .. Len(node.right)})

\* Every identifier held by a stored node is a key of the arena
NoDangling ==
  \A k \in DOMAIN node_map : Refs(node_map[k]) \subseteq DOMAIN node_map

\* C8 as claimed: in every state reachable by make_root and make_node calls
\* every identifier in a node's parent, left, right or children is the key
\* of a stored node.
C8_Original == NoDangling

\* C8, amended: the same, for calls whose factories follow the convention.
C8_NoDanglingConventional == Conventional => NoDangling

\* A root whose LeftRightNode child got a left child of its own
C8_Witness ==
  /\ Conventional
  /\ \E k \in DOMAIN node_map :
       /\ node_map[k].tag = "LeftRightNode"
       /\ node_map[k].left # None
       /\ node_map[k].parent # k
       /\ node_map[node_map[k].parent].children = <<k>>

\* A step keeps the id field of every stored node, and every node stored
\* after it has its key in its id field
IdsKept ==
  /\ \A k \in DOMAIN node_map' : node_map'[k].id = k
  /\ \A k \in DOMAIN node_map :
       k \in DOMAIN node_map' /\ node_map'[k].id = node_map[k].id

\* C9 as claimed: the node stored under key k has id = k, and no operation
\* (make_root, make_node with its factory, get_node_mut) changes the id of
\* a stored node.
C9_Original == [][IdsKept]_vars

\* C9, amended: the same, for calls whose factories follow the convention.
C9_IdsKeptConventional == [][Conventional' => IdsKept]_vars

\* get_node_mut finds a child whose parent was written to by two factories
C9_Witness ==
  /\ Conventional
  /\ last.op = "get_node_mut"
  /\ last.ret = "Some"
  /\ last.ret_node[1].id # last.ret_node[1].parent
  /\ Len(node_map[last.ret_node[1].parent].children) = 2

\* The stored nodes whose id and parent fields are equal
RootLike == {k \in DOMAIN node_map : node_map[k].id = node_map[k].parent}

\* The identifiers make_root returned
RootIds == {log[i].id : i \in {j \in 1 .. Len(log) : log[j].op = "make_root"}}

\* C10 as claimed: over any sequence of make_root and make_node calls at
\* most one stored node has id = parent, it is the one make_root made, and
\* every other node was made by make_node and has parent # id.
C10_Original ==
  /\ Cardinality(RootLike) <= 1
  /\ RootLike \subseteq RootIds

\* C10, amended: for calls whose factories follow the convention, the
\* stored nodes with id = parent are exactly the nodes make_root made, one
\* for each make_root call; the nodes make_node made have parent # id.
C10_RootsAreMakeRoot ==
  Conventional =>
    /\ RootLike = RootIds
    /\ Cardinality(RootLike) =
         Cardinality({j \in 1 .. Len(log) : log[j].op = "make_root"})

\* Two make_root calls and a child made under the second root
C10_Witness ==
  /\ Conventional
  /\ Cardinality(RootIds) = 2
  /\ \E k \in DOMAIN node_map : k \notin RootIds /\ node_map[k].parent \in RootIds

\* C11: nodes are never removed: a key of the arena stays a key through
\* every later operation (make_root, successful or failed make_node,
\* lookups), and the number of stored nodes never decreases.
C11_NeverRemoved ==
  [][/\ DOMAIN node_map \subseteq DOMAIN node_map'
     /\ \A k \in DOMAIN node_map : get_node(node_map', k) # None
     /\ Cardinality(DOMAIN node_map') >= Cardinality(DOMAIN node_map)]_vars

\* get_node finds a node that was stored before a failed make_node and
\* before a later successful one under it
C11_Witness ==
  /\ last.op = "get_node"
  /\ last.ret = "Some"
  /\ \E i \in FailedCalls : log[i].id > last.arg[1]
  /\ \E j \in 1 .. Len(log) :
       log[j].ok /\ log[j].parent = last.arg /\ log[j].id > last.arg[1]

\* The factory of the latest call, when that call was a successful make_node
LastFactoryKind ==
  IF last.op = "make_node" /\ last.ret = "Ok" THEN log[Len(log)].fkind
  ELSE "none"

\* C12: when the factory of a successful make_node(P, ..) appends new_id
\* to P's children, P.children afterwards is the previous sequence followed
\* by new_id, and P's id and parent fields (and its variant) are unchanged.
C12_PushFrame ==
  LastFactoryKind = "push" =>
    LET before == last.pre_map[last.arg[1]]
        after == node_map[last.arg[1]]
    IN /\ after.children = Append(before.children, last.ret_id[1])
       /\ \A i \in 1 .. Len(before.children) :
            after.children[i] = before.children[i]
       /\ after.id = before.id
       /\ after.parent = before.parent
       /\ after.tag = before.tag

\* A ChildrenNode child is pushed behind an earlier child of the same parent
C12_Witness ==
  /\ LastFactoryKind = "push"
  /\ Len(last.pre_map[last.arg[1]].children) = 1
  /\ node_map[last.ret_id[1]].tag = "ChildrenNode"

\* C13: when the parent is a LeftRightNode with left absent and the
\* factory sets the parent's left to Some(new_id), then afterwards the
\* parent's left is Some(new_id), its right, id and parent are unchanged,
\* and new_id is a key of the arena.
C13_SetLeftFrame ==
  (LastFactoryKind = "set_left" /\ last.pre_map[last.arg[1]].left = None) =>
    LET before == last.pre_map[last.arg[1]]
        after == node_map[last.arg[1]]
    IN /\ after.left = last.ret_id
       /\ after.right = before.right
       /\ after.id = before.id
       /\ after.parent = before.parent
       /\ after.tag = "LeftRightNode"
       /\ get_node(node_map, last.ret_id[1]) # None

\* The left slot of a LeftRightNode child of the root is filled
C13_Witness ==
  /\ LastFactoryKind = "set_left"
  /\ last.pre_map[last.arg[1]].left = None
  /\ last.pre_map[last.arg[1]].parent # last.arg[1]
  /\ node_map[last.arg[1]].left = last.ret_id

\* The types T an accessor may be asked for: the two variants' structs and
\* one type that is neither
AccessTypes == Variants \cup {"Id"}

\* C14: for every stored node the accessor for ChildrenNode returns the
\* node's contents exactly when the node is a ChildrenNode, the accessor
\* for LeftRightNode exactly when it is a LeftRightNode, every other
\* request returns None, and exactly one of the two accessors is present.
C14_VariantAccess ==
  \A k \in DOMAIN node_map :
    LET node == node_map[k]
        c == get_inner(node, "ChildrenNode")
        l == get_inner(node, "LeftRightNode")
    IN /\ (c # None) <=> ("children" \in DOMAIN node)
       /\ (l # None) <=> ("left" \in DOMAIN node /\ "right" \in DOMAIN node)
       /\ c # None => c = Some(node)
       /\ l # None => l = Some(node)
       /\ (c = None) # (l = None)
       /\ \A T \in AccessTypes \ Variants : get_inner(node, T) = None

\* Both variants are stored, and a factory got at the LeftRightNode's
\* fields and at the ChildrenNode's through the accessor
C14_Witness ==
  /\ \E k \in DOMAIN node_map :
       node_map[k].tag = "ChildrenNode" /\ node_map[k].children # << >>
  /\ \E k \in DOMAIN node_map :
       node_map[k].tag = "LeftRightNode" /\ node_map[k].right # None

---------------------------------------------------------------------------
\* The counter at its maximum. The u32 of Id is scaled down here: MaxId
\* stands for the largest value the counter holds (u32::MAX), reached after
\* MaxId calls. `unpacked_id + 1` then overflows: a build with overflow
\* checks (the debug profile) panics in next(), a build without them wraps
\* to 0. Both outcomes are steps; the run is followed up to and including
\* the call that overflows.

\* IdGenerator::next at the maximum, without overflow checks
IdGenerator_next_wrapped(n) == (n + 1) % (MaxId + 1)

\* What a call that panicked leaves in `last`
Panicked(op, arg) ==
  [NoCall EXCEPT !.op = op, !.arg = arg, !.ret = "panic",
     !.pre_map = node_map, !.pre_next = nextId]

\* NodeTree::make_root with the counter at its maximum
make_root_at_max ==
  /\ nextId = MaxId
  /\ UNCHANGED other
  /\ \/ /\ last' = Panicked("make_root", None)
        /\ UNCHANGED <<nextId, node_map, log, other>>
     \/ LET id == IdGenerator_next_value(nextId)
        IN /\ nextId' = IdGenerator_next_wrapped(nextId)
           /\ node_map' = HashMap_insert(node_map, id, RootNode(id))
           /\ log' = Append(log, [op |-> "make_root", parent |-> None,
                                  id |-> id, ok |-> TRUE, fkind |-> "none"])
           /\ last' = [NoCall EXCEPT !.op = "make_root", !.consumed = Some(id),
                         !.ret = "Id", !.ret_id = Some(id),
                         !.pre_map = node_map, !.pre_next = nextId]

\* NodeTree::make_node with the counter at its maximum: next() runs first,
\* so the panic comes whether the parent is present or not
make_node_at_max(parent_id, f) ==
  /\ nextId = MaxId
  /\ UNCHANGED other
  /\ \/ /\ last' = Panicked("make_node", Some(parent_id))
        /\ UNCHANGED <<nextId, node_map, log, other>>
     \/ LET id == IdGenerator_next_value(nextId)
            found == get_node(node_map, parent_id)
        IN /\ nextId' = IdGenerator_next_wrapped(nextId)
           /\ IF found # None
              THEN /\ FactoryReturns(f, id, found[1])
                   /\ node_map' = MakeNodeStore(node_map, parent_id, id, f)
                   /\ log' = Append(log, [op |-> "make_node",
                                          parent |-> Some(parent_id), id |-> id,
                                          ok |-> TRUE, fkind |-> f.kind])
                   /\ last' = [NoCall EXCEPT !.op = "make_node",
                                 !.arg = Some(parent_id), !.consumed = Some(id),
                                 !.ret = "Ok", !.ret_id = Some(id),
                                 !.invoked = 1, !.fac_id = Some(id),
                                 !.fac_parent = found,
                                 !.fac_ret = Some(FactoryNode(f, id, found[1])),
                                 !.pre_map = node_map, !.pre_next = nextId]
              ELSE /\ node_map' = node_map
                   /\ log' = Append(log, [op |-> "make_node", parent |-> None,
                                          id |-> id, ok |-> FALSE,
                                          fkind |-> "none"])
                   /\ last' = [NoCall EXCEPT !.op = "make_node",
                                 !.arg = Some(parent_id), !.consumed = Some(id),
                                 !.ret = MakeNodeError,
                                 !.pre_map = node_map, !.pre_next = nextId]

\* The run ends with the call made at the maximum
Running == last.ret # "panic" /\ Len(log) <= MaxId

NextOverflow ==
  \/ Running /\ Next
  \/ Running /\ make_root_at_max
  \/ Running /\ \E parent_id \in Ids, f \in Factories :
                   make_node_at_max(parent_id, f)

SpecOverflow == Init /\ [][NextOverflow]_vars

\* C15: no public operation aborts: in every reachable state, the one
\* where the counter holds its maximum included, next(), make_root and
\* make_node return normally.
C15_NoAbort == last.ret # "panic"

---------------------------------------------------------------------------
\* Two NodeTree instances. The calls are made on one instance at a time;
\* Switch is the caller turning to the other instance. The calls made on
\* the two instances together are bounded by MaxId.

\* The instance being called, as a record like `other`
This == [nextId |-> nextId, node_map |-> node_map, log |-> log]

\* The caller turns to the other instance
Switch ==
  /\ nextId' = other.nextId
  /\ node_map' = other.node_map
  /\ log' = other.log
  /\ other' = This
  /\ last' = [NoCall EXCEPT !.op = "switch"]

\* Calls are made while the two instances together have seen fewer than
\* MaxId of them
CallsLeft == Len(log) + Len(other.log) < MaxId

NextTwo ==
  \/ CallsLeft /\ make_root
  \/ CallsLeft /\ \E parent_id \in Ids, f \in Factories : make_node(parent_id, f)
  \/ Switch

SpecTwo == Init /\ [][NextTwo]_vars

\* The identifiers the calls of a history returned
ReturnedIn(l) == {l[i].id : i \in {j \in 1 .. Len(l) : l[j].ok}}

\* C16 as claimed: an identifier returned by one instance is never the key
\* of a node present in the other instance.
C16_Original ==
  /\ ReturnedIn(log) \cap DOMAIN other.node_map = {}
  /\ ReturnedIn(other.log) \cap DOMAIN node_map = {}

\* In a tree t the n-th call consumed Id(n - 1), the counter stands at the
\* number of calls, and the keys are the identifiers its own calls returned
NumberedFromZero(t) ==
  /\ \A i \in 1 .. Len(t.log) : t.log[i].id = i - 1
  /\ t.nextId = Len(t.log)
  /\ DOMAIN t.node_map = ReturnedIn(t.log)

\* C16, amended: each instance owns its generator and its node map: a call
\* on one instance changes nothing in the other, and each instance numbers
\* its identifiers from Id(0) by its own calls alone, so identifier values
\* are unique within an instance, not across instances.
C16_PerInstance ==
  /\ [](NumberedFromZero(This) /\ NumberedFromZero(other))
  /\ [][last'.op # "switch" => other' = other]_vars

\* Both instances hold a node under Id(0), and the nodes differ
C16_Witness ==
  /\ 0 \in DOMAIN node_map
  /\ 0 \in DOMAIN other.node_map
  /\ node_map[0] # other.node_map[0]

---------------------------------------------------------------------------
\* get_node_mut hands the caller Option<&mut Node>; the fields of a node are
\* pub, so the caller can write through the borrow. SpecMut adds that write
\* to the calls; its factories are the ones of the test and of the
\* LeftRightNode scenario.

\* What a caller writes through the borrow: a field and the captured value
Writes == [kind : {"set_parent", "set_id"}, x : {MaxId}]

\* The node after the write
Written(node, w) ==
  IF w.kind = "set_parent" THEN [node EXCEPT !.parent = w.x]
  ELSE [node EXCEPT !.id = w.x]

\* NodeTree::get_node_mut returning Some(node), and the caller's write
\* through the borrow
WriteNodeMut(id, w) ==
  /\ get_node(node_map, id) # None
  /\ node_map' = [node_map EXCEPT ![id] = Written(node_map[id], w)]
  /\ last' = [NoCall EXCEPT !.op = "get_node_mut_write", !.arg = Some(id),
                !.ret = "Some", !.ret_node = get_node(node_map, id),
                !.pre_map = node_map, !.pre_next = nextId]
  /\ UNCHANGED <<nextId, log, other>>

\* The factories of SpecMut
MutFactories == {f \in Factories : f.kind \in {"push", "set_left"}}

NextMut ==
  \/ make_root
  \/ \E parent_id \in Ids, f \in MutFactories : make_node(parent_id, f)
  \/ \E id \in Ids : GetNode(id)
  \/ \E id \in Ids, w \in Writes : WriteNodeMut(id, w)

SpecMut == Init /\ [][NextMut]_vars

\* The stored node under k differs after the step
Changed(k) == node_map'[k] # node_map[k]

\* The step is a successful make_node(k, ..)
MadeChildOf(k) ==
  last'.op = "make_node" /\ last'.ret = "Ok" /\ last'.arg = Some(k)

\* C17 as claimed: a stored node changes only as the parent of a child
\* being created: a successful make_node(P, ..) leaves every stored node
\* other than P as it was, make_root and a failed make_node change no
\* stored node, and get_node changes nothing at all.
C17_Original ==
  [][/\ \A k \in DOMAIN node_map : Changed(k) => MadeChildOf(k)
     /\ last'.op = "get_node" => UNCHANGED <<nextId, node_map>>]_vars

\* C17, amended: a stored node changes only as the parent of a child being
\* created or by a caller's write through the borrow get_node_mut handed
\* out for it; the rest as claimed.
C17_FrameWithBorrow ==
  [][/\ \A k \in DOMAIN node_map :
          Changed(k) =>
            \/ MadeChildOf(k)
            \/ last'.op = "get_node_mut_write" /\ last'.arg = Some(k)
     /\ last'.op = "get_node" => UNCHANGED <<nextId, node_map>>]_vars

\* A successful make_node wrote to its parent and left the other stored
\* node as it was
C17_Witness ==
  /\ last.op = "make_node"
  /\ last.ret = "Ok"
  /\ Cardinality(DOMAIN last.pre_map) = 2
  /\ node_map[last.arg[1]] # last.pre_map[last.arg[1]]
  /\ \E k \in DOMAIN last.pre_map :
       k # last.arg[1] /\ node_map[k] = last.pre_map[k]

---------------------------------------------------------------------------
\* The last call was a lookup
LastLookup == last.op \in {"get_node", "get_node_mut"}

\* C18: in every reachable state get_node and get_node_mut return a node
\* for exactly the identifiers returned so far by make_root and by
\* successful make_node calls, and absent for every other identifier: the
\* ones not yet issued and the ones consumed by failed make_node calls.
C18_LookupIffReturned ==
  /\ \A id \in Ids : get_node(node_map, id) # None <=> id \in ReturnedIn(log)
  /\ LastLookup => (last.ret = "Some" <=> last.arg[1] \in ReturnedIn(log))
  /\ LastLookup /\ last.ret = "Some" => last.ret_node = Some(node_map[last.arg[1]])
  /\ \A id \in Ids : id >= nextId => get_node(node_map, id) = None
  /\ \A i \in FailedCalls : get_node(node_map, log[i].id) = None

\* get_node returned absent for the identifier a failed make_node consumed,
\* on a tree that holds nodes
C18_Witness ==
  /\ last.op = "get_node"
  /\ last.ret = "None"
  /\ \E i \in FailedCalls : log[i].id = last.arg[1]
  /\ node_map # HashMap_new
  /\ last.arg[1] < nextId - 1

---------------------------------------------------------------------------
\* The last call inserted a node: make_root, or make_node returning Ok
LastInserted ==
  \/ last.op = "make_root"
  \/ last.op = "make_node" /\ last.ret = "Ok"

\* C19: insertion never overwrites: in every reachable state every key of
\* the node map is strictly smaller than the generator's next identifier,
\* so the identifier under which make_root or make_node inserts is absent
\* from the map immediately before the insertion, and each successful call
\* increases the node count by exactly one.
C19_InsertionNeverOverwrites ==
  /\ \A k \in DOMAIN node_map : k < nextId
  /\ LastInserted =>
       /\ last.ret_id = Some(last.pre_next)
       /\ \A k \in DOMAIN last.pre_map : k < last.pre_next
       /\ last.pre_next \notin DOMAIN last.pre_map
       /\ last.pre_next \in DOMAIN node_map
       /\ Cardinality(DOMAIN node_map) = Cardinality(DOMAIN last.pre_map) + 1

\* A successful make_node inserted into a map that held one node, after a
\* failed call had consumed an identifier
C19_Witness ==
  /\ last.op = "make_node"
  /\ last.ret = "Ok"
  /\ Cardinality(DOMAIN last.pre_map) = 1
  /\ FailedCalls # {}
  /\ Cardinality(DOMAIN node_map) = 2

---------------------------------------------------------------------------
\* Parent nodes a closure can be handed
SampleParents ==
  {Variant_new(v, a, b) : v \in Variants, a \in Ids, b \in Ids}

\* The closures that return a node whose id is the new identifier and whose
\* parent is the id of the parent node they were given
FaithfulFactories ==
  {f \in Factories :
     \A id \in Ids, parent \in SampleParents :
       /\ FactoryNode(f, id, parent).id = id
       /\ FactoryNode(f, id, parent).parent = parent.id}

\* The closures that leave the id field of the parent as it was
IdKeepingFactories ==
  {f \in Factories :
     \A id \in Ids, parent \in SampleParents :
       FactoryReturns(f, id, parent) => FactoryParent(f, id, parent).id = parent.id}

\* Every successful make_node so far used a closure of the set F
AllFactoriesIn(F) ==
  \A i \in 1 .. Len(log) :
    (log[i].op = "make_node" /\ log[i].ok) => log[i].fkind \in {f.kind : f \in F}

\* The keys of the nodes make_node created
MadeByMakeNode ==
  {log[i].id : i \in {j \in 1 .. Len(log) : log[j].op = "make_node" /\ log[j].ok}}

\* Following parent links from the node under k reaches, in at most n
\* steps, a stored node with id = parent
RECURSIVE ReachesRoot(_, _)
ReachesRoot(k, n) ==
  /\ k \in DOMAIN node_map
  /\ \/ node_map[k].id = node_map[k].parent
     \/ n > 0 /\ ReachesRoot(node_map[k].parent, n - 1)

\* The keys met by following parent links from k for at most n steps
RECURSIVE ParentChain(_, _)
ParentChain(k, n) ==
  IF k \notin DOMAIN node_map \/ n = 0 THEN {}
  ELSE {node_map[k].parent} \cup ParentChain(node_map[k].parent, n - 1)

\* Parents are smaller, links form no cycle but a root's self-loop, and
\* every chain of parent links ends in a node with id = parent
ParentsWellFounded ==
  /\ \A k \in MadeByMakeNode : node_map[k].parent < k
  /\ \A k \in DOMAIN node_map :
       node_map[k].parent # k => k \notin ParentChain(k, MaxId + 1)
  /\ \A k \in DOMAIN node_map : ReachesRoot(k, MaxId + 1)

====
